---- MODULE Spec2Model ----
(***************************************************************************)
(* LegacyBuilder (virtualenv/builders/legacy.py): the construction of a    *)
(* virtual environment by create_virtual_environment, and the execution of *)
(* the site.py it generates from the SITE template.                        *)
(*                                                                         *)
(* Strings are TLA+ strings; Len, \o and SubSeq act on them character by   *)
(* character, so paths, file names and the template are modelled as the    *)
(* text the code handles.                                                  *)
(***************************************************************************)
EXTENDS Integers, Sequences, FiniteSets, TLC

\* Bounds of the model.
MaxRuns == 2       \* runs of create_virtual_environment against one destination
MaxMicro == 1      \* micro versions 0..MaxMicro of each base interpreter
MaxRot == 1        \* iteration orders of the modules set: rotations 0..MaxRot
MaxPath == 2       \* entries of sys.path when the generated site.py starts

VARIABLES
    \* create_virtual_environment
    destination,    \* the destination argument
    python,         \* what the interpreter self.python reports about itself
    base_missing,   \* names of files absent from the base library directory
    status,         \* "running", "done" (returned) or "failed" (raised)
    pc,             \* the step the run is at (or failed at)
    run,            \* number of the current run against this destination
    base_python,    \* result of _get_base_python_info()
    i,              \* index of the loop over range(3)
    todo,           \* modules still to be visited by the loop over modules
    dirs,           \* directories of the destination file system
    files,          \* files of the destination file system: path -> content
    error,          \* the exception that reached the caller ("" if none)
    log,            \* destination paths written by the current run, in order
    \* the generated site.py, executed by the new environment's interpreter
    spc,            \* position in the script
    lit,            \* the five values substituted into the template
    sys_prefix, sys_exec_prefix, sys_base_prefix, sys_base_exec_prefix,
    sys_path,       \* sys.path
    new_sys_path,   \* the script's new_sys_path
    sys_modules,    \* sys.modules: name -> where the module was loaded from
    sys_flags,      \* sys.flags
    real_sys_flags, \* the script's _real_sys_flags
    seen_no_user_site, \* what the executed base site.py read as sys.flags.no_user_site
    exc             \* the exception the script ended with ("" if none)

build_vars == <<destination, python, base_missing, status, pc, run, base_python,
                i, todo, dirs, files, error, log>>
site_vars == <<spc, lit, sys_prefix, sys_exec_prefix, sys_base_prefix,
               sys_base_exec_prefix, sys_path, new_sys_path, sys_modules,
               sys_flags, real_sys_flags, seen_no_user_site, exc>>
vars == <<build_vars, site_vars>>

----------------------------------------------------------------------------
\* Python's str, str.join, str.startswith, str.replace and os.path.join.

Min(S) == CHOOSE x \in S : \A y \in S : x <= y

Digit == <<"0", "1", "2", "3", "4", "5", "6", "7", "8", "9">>

RECURSIVE str(_)
str(n) == IF n < 10 THEN Digit[n + 1] ELSE str(n \div 10) \o Digit[(n % 10) + 1]

RECURSIVE join(_, _)
join(sep, seq) ==
    IF Len(seq) = 0 THEN ""
    ELSE IF Len(seq) = 1 THEN seq[1]
    ELSE seq[1] \o sep \o join(sep, Tail(seq))

startswith(s, prefix) ==
    Len(prefix) <= Len(s) /\ SubSeq(s, 1, Len(prefix)) = prefix

endswith(s, suffix) ==
    Len(suffix) <= Len(s) /\ SubSeq(s, Len(s) - Len(suffix) + 1, Len(s)) = suffix

\* s[n:]
slice_from(s, n) == IF n >= Len(s) THEN "" ELSE SubSeq(s, n + 1, Len(s))

\* positions at which old occurs in s
occurrences(s, old) ==
    {j \in 1..(Len(s) - Len(old) + 1) : SubSeq(s, j, j + Len(old) - 1) = old}

contains(s, old) == occurrences(s, old) # {}

\* s.replace(old, new): every non-overlapping occurrence, leftmost first
RECURSIVE replace(_, _, _)
replace(s, old, new) ==
    LET hits == occurrences(s, old) IN
    IF hits = {} THEN s
    ELSE LET j == Min(hits) IN
         SubSeq(s, 1, j - 1) \o new
             \o replace(slice_from(s, j + Len(old) - 1), old, new)

\* posixpath.join(a, b)
os_path_join(a, b) ==
    IF startswith(b, "/") THEN b
    ELSE IF a = "" \/ endswith(a, "/") THEN a \o b
    ELSE a \o "/" \o b

----------------------------------------------------------------------------
\* The SITE template, cut at its five placeholders.

SITE_seg1 ==
    "\n"
    \o "import sys\n"
    \o "import os.path\n"
    \o "\n"
    \o "# We want to make sure that our sys.prefix and sys.exec_prefix match the\n"
    \o "# locations in our virtual enviornment.\n"
    \o "sys.prefix = \""

SITE_seg2 ==
    "\"\n"
    \o "sys.exec_prefix = \""

SITE_seg3 ==
    "\"\n"
    \o "\n"
    \o "# We want to record what the \"real/base\" prefix is of the virtual environment.\n"
    \o "sys.base_prefix = \""

SITE_seg4 ==
    "\"\n"
    \o "sys.base_exec_prefix = \""

SITE_seg5 ==
    "\"\n"
    \o "\n"
    \o "# At the point this code is running, the only paths on the sys.path are the\n"
    \o "# paths that the interpreter adds itself. These are essentially the locations\n"
    \o "# it looks for the various stdlib modules. Since we are inside of a virtual\n"
    \o "# environment these will all be relative to the sys.prefix and sys.exec_prefix,\n"
    \o "# however we want to change these to be relative to sys.base_prefix and\n"
    \o "# sys.base_exec_prefix instead.\n"
    \o "new_sys_path = []\n"
    \o "for path in sys.path:\n"
    \o "    # TODO: Is there a better way to determine this?\n"
    \o "    if path.startswith(sys.prefix):\n"
    \o "        path = os.path.join(\n"
    \o "            sys.base_prefix,\n"
    \o "            path[len(sys.prefix) + 1:],\n"
    \o "        )\n"
    \o "    elif path.startswith(sys.exec_prefix):\n"
    \o "        path = os.path.join(\n"
    \o "            sys.base_exec_prefix,\n"
    \o "            path[len(sys.exec_prefix) + 1:],\n"
    \o "        )\n"
    \o "\n"
    \o "    new_sys_path.append(path)\n"
    \o "sys.path = new_sys_path\n"
    \o "\n"
    \o "# We want to empty everything that has already been imported from the\n"
    \o "# sys.modules so that any additional imports of these modules will import them\n"
    \o "# from the base Python and not from the copies inside of the virtual\n"
    \o "# environment. This will ensure that our copies will only be used for\n"
    \o "# bootstrapping the virtual environment.\n"
    \o "for key in list(sys.modules):\n"
    \o "    # We don't want to purge these modules because if we do, then things break\n"
    \o "    # very badly.\n"
    \o "    if key in [\"sys\", \"site\", \"sitecustomize\", \"__builtin__\", \"__main__\"]:\n"
    \o "        continue\n"
    \o "\n"
    \o "    del sys.modules[key]\n"
    \o "\n"
    \o "# We want to trick the interpreter into thinking that the user specific\n"
    \o "# site-packages has been requested to be disabled. We'll do this by mimicing\n"
    \o "# that sys.flags.no_user_site has been set to False, however sys.flags is a\n"
    \o "# read-only structure so we'll temporarily replace it with one that has the\n"
    \o "# same values except for sys.flags.no_user_site which will be set to True.\n"
    \o "_real_sys_flags = sys.flags\n"
    \o "class AttrDict(dict):\n"
    \o "    def __init__(self, *args, **kwargs):\n"
    \o "        dict.__init__(self, *args, **kwargs)\n"
    \o "    def __getattr__(self, name):\n"
    \o "        return self[name]\n"
    \o "sys.flags = AttrDict((k, getattr(sys.flags, k)) for k in dir(sys.flags))\n"
    \o "sys.flags[\"no_user_site\"] = True\n"
    \o "\n"
    \o "# Next we want to import the *real* site module from the base Python. Actually\n"
    \o "# attempting to do an import here will just import this module again, so we'll\n"
    \o "# just read the real site module and exec it.\n"
    \o "with open(\""

SITE_seg6 ==
    "\") as fp:\n"
    \o "    exec(fp.read())\n"
    \o "\n"
    \o "# Finally we'll restore the real sys.flags\n"
    \o "sys.flags = _real_sys_flags\n"

SITE ==
    SITE_seg1 \o "__PREFIX__" \o SITE_seg2 \o "__EXEC_PREFIX__" \o SITE_seg3
        \o "__BASE_PREFIX__" \o SITE_seg4 \o "__BASE_EXEC_PREFIX__" \o SITE_seg5
        \o "__SITE__" \o SITE_seg6

Placeholders ==
    {"__PREFIX__", "__EXEC_PREFIX__", "__BASE_PREFIX__", "__BASE_EXEC_PREFIX__",
     "__SITE__"}

\* The five replace() calls of create_virtual_environment, in their order.
render(dest, bp) ==
    LET d1 == replace(SITE, "__PREFIX__", dest)
        d2 == replace(d1, "__EXEC_PREFIX__", dest)
        d3 == replace(d2, "__BASE_PREFIX__", bp["sys.prefix"])
        d4 == replace(d3, "__BASE_EXEC_PREFIX__", bp["sys.exec_prefix"])
    IN  replace(d4, "__SITE__", bp["site.py"])

----------------------------------------------------------------------------
\* The base interpreter and what _get_base_python_info() reports about it.

Info(version_info, prefix, exec_prefix) ==
    LET mm == str(version_info[1]) \o "." \o str(version_info[2])
        lib == prefix \o "/lib/python" \o mm
    IN  ("sys.version_info" :> version_info)
        @@ ("sys.executable" :> prefix \o "/bin/python" \o mm)
        @@ ("sys.prefix" :> prefix)
        @@ ("sys.exec_prefix" :> exec_prefix)
        @@ ("lib" :> lib)
        @@ ("site.py" :> os_path_join(lib, "site.py"))

NoInfo ==
    ("sys.version_info" :> <<>>) @@ ("sys.executable" :> "") @@ ("sys.prefix" :> "")
        @@ ("sys.exec_prefix" :> "") @@ ("lib" :> "") @@ ("site.py" :> "")

Micros == 0..MaxMicro

Versions ==
    {<<2, 7, p, "final", 0>> : p \in Micros} \cup {<<3, 10, p, "final", 0>> : p \in Micros}

Interpreters ==
    {Info(v, "/usr", "/usr") : v \in Versions}
        \cup {Info(<<2, 7, 0, "final", 0>>, "/opt/py", "/opt/py/x86")}

Destinations == {"/env", "/tmp/v__SITE__"}

\* content of a file of the base installation
contents(src) == "<" \o src \o ">"

\* whether src exists in the base installation
exists(src) == \A name \in base_missing : src # os_path_join(python["lib"], name)

----------------------------------------------------------------------------
\* virtualenv._utils

\* ensure_directory(path): create if absent, no error if it exists
ensure_directory(t, path) == [t EXCEPT !.dirs = @ \cup {path}]

\* copyfile(src, dst): dst holds a copy of src, replacing what was there
copyfile(t, src, dst) ==
    [t EXCEPT !.files = (dst :> contents(src)) @@ @, !.log = Append(@, dst)]

NoSuchFile(src) == "No such file or directory: '" \o src \o "'"

----------------------------------------------------------------------------
\* The layout create_virtual_environment computes.

\* base_python["sys.version_info"][:n], each component through str
version_prefix(bp, n) == [j \in 1..n |-> str(bp["sys.version_info"][j])]

bin_dir(dest) == os_path_join(dest, "bin")

\* binary_name with the slice [:i + 1]: an off-by-one in the loop
binary_name_mut(bp, n) == "python" \o join(".", version_prefix(bp, n + 1))

\* the name of the i-th binary of the loop over range(3)
binary_name(bp, n) == "python" \o join(".", version_prefix(bp, n))

\* lib_dir named after the whole of major.minor.micro
lib_dir_mut(dest, bp) ==
    os_path_join(os_path_join(dest, "lib"),
                 "python" \o join(".", version_prefix(bp, 3)))

lib_dir(dest, bp) ==
    os_path_join(os_path_join(dest, "lib"),
                 "python" \o join(".", version_prefix(bp, 2)))

site_packages_dir(dest, bp) == os_path_join(lib_dir(dest, bp), "site-packages")

\* the set with the sentinel os.py left in it
module_seq_mut ==
    <<"os.py", "posixpath.py", "stat.py", "genericpath.py", "warnings.py",
      "linecache.py", "types.py", "UserDict.py", "_abcoll.py", "abc.py",
      "_weakrefset.py", "copy_reg.py">>

\* the elements of the set literal `modules`, as written
module_seq ==
    <<"posixpath.py", "stat.py", "genericpath.py", "warnings.py",
      "linecache.py", "types.py", "UserDict.py", "_abcoll.py", "abc.py",
      "_weakrefset.py", "copy_reg.py">>

modules == {module_seq[j] : j \in DOMAIN module_seq}

\* A set literal keeps one of each element.
RECURSIVE distinct(_)
distinct(seq) ==
    IF seq = <<>> THEN <<>>
    ELSE LET front == distinct(SubSeq(seq, 1, Len(seq) - 1))
             last == seq[Len(seq)]
         IN  IF \E j \in DOMAIN front : front[j] = last THEN front
             ELSE Append(front, last)

rotate(seq, k) == [j \in 1..Len(seq) |-> seq[((j + k - 1) % Len(seq)) + 1]]

\* The orders in which `for module in modules` may visit the set.
ModuleOrders == {rotate(distinct(module_seq), k) : k \in 0..MaxRot}

----------------------------------------------------------------------------
\* The steps of create_virtual_environment on the destination tree
\* t = [dirs, files, log].

EmptyTree == [dirs |-> {}, files |-> <<>>, log |-> <<>>]

step_ensure_bin(t, dest) == ensure_directory(t, bin_dir(dest))

step_copy_binary(t, dest, bp, n) ==
    copyfile(t, bp["sys.executable"], os_path_join(bin_dir(dest), binary_name(bp, n)))

step_ensure_lib(t, dest, bp) == ensure_directory(t, lib_dir(dest, bp))

step_ensure_site_packages(t, dest, bp) ==
    ensure_directory(t, site_packages_dir(dest, bp))

step_copy_lib_file(t, dest, bp, name) ==
    copyfile(t, os_path_join(bp["lib"], name), os_path_join(lib_dir(dest, bp), name))

site_dst(dest, bp) == os_path_join(lib_dir(dest, bp), "site.py")

\* open(dst, "a"): what the file held stays
step_open_site_mut(t, dest, bp) ==
    [t EXCEPT !.files = IF site_dst(dest, bp) \in DOMAIN @ THEN @
                        ELSE (site_dst(dest, bp) :> "") @@ @,
              !.log = Append(@, site_dst(dest, bp))]

\* open(dst, "w"): the file exists and is empty
step_open_site(t, dest, bp) ==
    [t EXCEPT !.files = (site_dst(dest, bp) :> "") @@ @,
              !.log = Append(@, site_dst(dest, bp))]

\* dst_fp.write(data)
step_write_site(t, dest, bp) ==
    [t EXCEPT !.files = (site_dst(dest, bp) :> @[site_dst(dest, bp)] \o render(dest, bp)) @@ @]

RECURSIVE copy_all(_, _, _, _)
copy_all(t, dest, bp, names) ==
    IF names = <<>> THEN t
    ELSE copy_all(step_copy_lib_file(t, dest, bp, Head(names)), dest, bp, Tail(names))

\* A run in which no step fails, from tree t.
build(t, dest, bp) ==
    LET t1 == step_ensure_bin(t, dest)
        t2 == step_copy_binary(t1, dest, bp, 0)
        t3 == step_copy_binary(t2, dest, bp, 1)
        t4 == step_copy_binary(t3, dest, bp, 2)
        t5 == step_ensure_lib(t4, dest, bp)
        t6 == step_ensure_site_packages(t5, dest, bp)
        t7 == step_copy_lib_file(t6, dest, bp, "os.py")
        t8 == copy_all(t7, dest, bp, distinct(module_seq))
    IN  step_write_site(step_open_site(t8, dest, bp), dest, bp)

tree == [dirs |-> dirs, files |-> files, log |-> log]

----------------------------------------------------------------------------
\* create_virtual_environment, step by step. A step either completes or
\* raises; an exception is caught nowhere, so it ends the run.

Becomes(t) == dirs' = t.dirs /\ files' = t.files /\ log' = t.log

Raise(e) == status' = "failed" /\ error' = e

SiteIdle ==
    /\ spc = "not started"
    /\ lit = <<>>
    /\ sys_prefix = "" /\ sys_exec_prefix = ""
    /\ sys_base_prefix = "" /\ sys_base_exec_prefix = ""
    /\ sys_path = <<>> /\ new_sys_path = <<>>
    /\ sys_modules = <<>>
    /\ sys_flags = [kind |-> "sys.flags", no_user_site |-> FALSE]
    /\ real_sys_flags = [kind |-> "unset", no_user_site |-> FALSE]
    /\ seen_no_user_site = {}
    /\ exc = ""

Init ==
    /\ destination \in Destinations
    /\ python \in Interpreters
    /\ base_missing \in {{}, {"stat.py"}, {"os.py"}}
    /\ status = "running" /\ pc = "probe" /\ run = 1
    /\ base_python = NoInfo
    /\ i = 0 /\ todo = <<>>
    /\ dirs = {} /\ files = <<>> /\ log = <<>>
    /\ error = ""
    /\ SiteIdle

\* base_python = self._get_base_python_info()
Probe ==
    /\ status = "running" /\ pc = "probe"
    /\ \/ /\ base_python' = python
          /\ pc' = "ensure_bin"
          /\ UNCHANGED <<status, error>>
       \/ /\ Raise("CalledProcessError")
          /\ UNCHANGED <<base_python, pc>>
    /\ UNCHANGED <<destination, python, base_missing, run, i, todo, dirs, files, log>>
    /\ UNCHANGED site_vars

\* ensure_directory(bin_dir)
EnsureBin ==
    /\ status = "running" /\ pc = "ensure_bin"
    /\ \/ /\ Becomes(step_ensure_bin(tree, destination))
          /\ pc' = "copy_binary" /\ i' = 0
          /\ UNCHANGED <<status, error>>
       \/ /\ Raise("OSError")
          /\ UNCHANGED <<pc, i, dirs, files, log>>
    /\ UNCHANGED <<destination, python, base_missing, run, base_python, todo>>
    /\ UNCHANGED site_vars

\* the loop over range(3) with a failed copy caught and passed over
CopyBinary_mut ==
    /\ status = "running" /\ pc = "copy_binary"
    /\ \/ /\ Becomes(step_copy_binary(tree, destination, base_python, i))
       \/ /\ UNCHANGED <<dirs, files, log>>
    /\ i' = i + 1
    /\ pc' = IF i + 1 < 3 THEN "copy_binary" ELSE "ensure_lib"
    /\ UNCHANGED <<status, error>>
    /\ UNCHANGED <<destination, python, base_missing, run, base_python, todo>>
    /\ UNCHANGED site_vars

\* for i in range(3): copyfile(base_python["sys.executable"], ...)
CopyBinary ==
    /\ status = "running" /\ pc = "copy_binary"
    /\ \/ /\ Becomes(step_copy_binary(tree, destination, base_python, i))
          /\ i' = i + 1
          /\ pc' = IF i + 1 < 3 THEN "copy_binary" ELSE "ensure_lib"
          /\ UNCHANGED <<status, error>>
       \/ /\ Raise("OSError")
          /\ UNCHANGED <<pc, i, dirs, files, log>>
    /\ UNCHANGED <<destination, python, base_missing, run, base_python, todo>>
    /\ UNCHANGED site_vars

\* ensure_directory(lib_dir)
EnsureLib ==
    /\ status = "running" /\ pc = "ensure_lib"
    /\ \/ /\ Becomes(step_ensure_lib(tree, destination, base_python))
          /\ pc' = "ensure_site_packages"
          /\ UNCHANGED <<status, error>>
       \/ /\ Raise("OSError")
          /\ UNCHANGED <<pc, dirs, files, log>>
    /\ UNCHANGED <<destination, python, base_missing, run, base_python, i, todo>>
    /\ UNCHANGED site_vars

\* ensure_directory(site_packages_dir)
EnsureSitePackages ==
    /\ status = "running" /\ pc = "ensure_site_packages"
    /\ \/ /\ Becomes(step_ensure_site_packages(tree, destination, base_python))
          /\ pc' = "copy_os"
          /\ UNCHANGED <<status, error>>
       \/ /\ Raise("OSError")
          /\ UNCHANGED <<pc, dirs, files, log>>
    /\ UNCHANGED <<destination, python, base_missing, run, base_python, i, todo>>
    /\ UNCHANGED site_vars

\* copyfile(os.path.join(base_python["lib"], "os.py"), ...), then the set
\* `modules` is built and its iteration starts
CopyOs ==
    /\ status = "running" /\ pc = "copy_os"
    /\ LET src == os_path_join(base_python["lib"], "os.py") IN
       \/ /\ exists(src)
          /\ Becomes(step_copy_lib_file(tree, destination, base_python, "os.py"))
          /\ pc' = "copy_modules"
          /\ todo' \in ModuleOrders
          /\ UNCHANGED <<status, error>>
       \/ /\ ~exists(src)
          /\ Raise(NoSuchFile(src))
          /\ UNCHANGED <<pc, todo, dirs, files, log>>
       \/ /\ exists(src)
          /\ Raise("OSError")
          /\ UNCHANGED <<pc, todo, dirs, files, log>>
    /\ UNCHANGED <<destination, python, base_missing, run, base_python, i>>
    /\ UNCHANGED site_vars

\* the loop over modules with a missing source skipped
CopyModule_mut ==
    /\ status = "running" /\ pc = "copy_modules"
    /\ LET module == Head(todo)
           src == os_path_join(base_python["lib"], module)
       IN
       \/ /\ exists(src)
          /\ Becomes(step_copy_lib_file(tree, destination, base_python, module))
       \/ /\ ~exists(src)
          /\ UNCHANGED <<dirs, files, log>>
    /\ todo' = Tail(todo)
    /\ pc' = IF Tail(todo) = <<>> THEN "write_site" ELSE "copy_modules"
    /\ UNCHANGED <<status, error>>
    /\ UNCHANGED <<destination, python, base_missing, run, base_python, i>>
    /\ UNCHANGED site_vars

\* for module in modules: copyfile(os.path.join(base_python["lib"], module), ...)
CopyModule ==
    /\ status = "running" /\ pc = "copy_modules"
    /\ LET module == Head(todo)
           src == os_path_join(base_python["lib"], module)
       IN
       \/ /\ exists(src)
          /\ Becomes(step_copy_lib_file(tree, destination, base_python, module))
          /\ todo' = Tail(todo)
          /\ pc' = IF Tail(todo) = <<>> THEN "write_site" ELSE "copy_modules"
          /\ UNCHANGED <<status, error>>
       \/ /\ ~exists(src)
          /\ Raise(NoSuchFile(src))
          /\ UNCHANGED <<pc, todo, dirs, files, log>>
       \/ /\ exists(src)
          /\ Raise("OSError")
          /\ UNCHANGED <<pc, todo, dirs, files, log>>
    /\ UNCHANGED <<destination, python, base_missing, run, base_python, i>>
    /\ UNCHANGED site_vars

\* with open(dst, "w", encoding="utf8") as dst_fp: ... dst_fp.write(data)
WriteSite ==
    /\ status = "running" /\ pc = "write_site"
    /\ \/ /\ Becomes(step_write_site(step_open_site(tree, destination, base_python),
                                     destination, base_python))
          /\ status' = "done"
          /\ UNCHANGED error
       \/ \* open() raises
          /\ Raise("OSError")
          /\ UNCHANGED <<dirs, files, log>>
       \/ \* the file is open and empty; rendering or the write raises
          /\ Becomes(step_open_site(tree, destination, base_python))
          /\ Raise("OSError")
    /\ UNCHANGED <<destination, python, base_missing, run, base_python, pc, i, todo>>
    /\ UNCHANGED site_vars

\* The caller runs create_virtual_environment again, same interpreter and
\* destination.
Rerun ==
    /\ status \in {"done", "failed"}
    /\ run < MaxRuns
    /\ run' = run + 1
    /\ status' = "running" /\ pc' = "probe"
    /\ base_python' = NoInfo /\ i' = 0 /\ todo' = <<>>
    /\ error' = "" /\ log' = <<>>
    /\ UNCHANGED <<destination, python, base_missing, dirs, files>>
    /\ UNCHANGED site_vars

Next ==
    \/ Probe
    \/ EnsureBin
    \/ CopyBinary
    \/ EnsureLib
    \/ EnsureSitePackages
    \/ CopyOs
    \/ CopyModule
    \/ WriteSite
    \/ Rerun

Spec == Init /\ [][Next]_vars

----------------------------------------------------------------------------
\* The generated site.py, run by the interpreter of the new environment at
\* its start-up.

\* the text of s between the first `before` and the next `after`
between(s, before, after) ==
    LET rest == slice_from(s, Min(occurrences(s, before)) + Len(before) - 1)
    IN  SubSeq(rest, 1, Min(occurrences(rest, after)) - 1)

\* the five string literals of a written site.py
literals(text) ==
    [PREFIX |-> between(text, "sys.prefix = \"", "\""),
     EXEC_PREFIX |-> between(text, "sys.exec_prefix = \"", "\""),
     BASE_PREFIX |-> between(text, "sys.base_prefix = \"", "\""),
     BASE_EXEC_PREFIX |-> between(text, "sys.base_exec_prefix = \"", "\""),
     SITE |-> between(text, "with open(\"", "\"")]

\* entries sys.path may hold when site.py starts: the interpreter's own
\* entries under the environment, and entries taken from PYTHONPATH
PathEntries ==
    {lib_dir(destination, python), destination, destination \o "x/lib", "/opt/site"}

StartupPaths == UNION {[1..n -> PathEntries] : n \in 0..MaxPath}

StartupModules ==
    {[name \in {"sys", "site", "__main__"} \cup extra |-> "bootstrap"] :
        extra \in SUBSET {"__builtin__", "sitecustomize", "os"}}

SiteInit ==
    /\ destination \in Destinations
    /\ python \in Interpreters
    /\ base_missing = {}
    /\ status = "done" /\ pc = "write_site" /\ run = 1
    /\ base_python = python
    /\ i = 3 /\ todo = <<>>
    /\ LET t == build(EmptyTree, destination, python)
       IN  dirs = t.dirs /\ files = t.files /\ log = t.log
    /\ error = ""
    /\ spc = "start"
    /\ lit = literals(files[site_dst(destination, python)])
    /\ sys_prefix = destination /\ sys_exec_prefix = destination
    /\ sys_base_prefix = "" /\ sys_base_exec_prefix = ""
    /\ sys_path \in StartupPaths
    /\ new_sys_path = <<>>
    /\ sys_modules \in StartupModules
    /\ sys_flags \in {[kind |-> "sys.flags", no_user_site |-> b] : b \in BOOLEAN}
    /\ real_sys_flags = [kind |-> "unset", no_user_site |-> FALSE]
    /\ seen_no_user_site = {}
    /\ exc = ""

\* sys.prefix = "__PREFIX__" ... sys.base_exec_prefix = "__BASE_EXEC_PREFIX__";
\* new_sys_path = []
SetPrefixes ==
    /\ spc = "start"
    /\ sys_prefix' = lit.PREFIX
    /\ sys_exec_prefix' = lit.EXEC_PREFIX
    /\ sys_base_prefix' = lit.BASE_PREFIX
    /\ sys_base_exec_prefix' = lit.BASE_EXEC_PREFIX
    /\ new_sys_path' = <<>>
    /\ spc' = "rewrite"
    /\ UNCHANGED <<lit, sys_path, sys_modules, sys_flags, real_sys_flags,
                   seen_no_user_site, exc>>
    /\ UNCHANGED build_vars

\* the body of `for path in sys.path`, up to new_sys_path.append(path)
rewrite_entry(path) ==
    IF startswith(path, sys_prefix)
    THEN os_path_join(sys_base_prefix, slice_from(path, Len(sys_prefix) + 1))
    ELSE IF startswith(path, sys_exec_prefix)
    THEN os_path_join(sys_base_exec_prefix, slice_from(path, Len(sys_exec_prefix) + 1))
    ELSE path

RewriteEntry ==
    /\ spc = "rewrite"
    /\ Len(new_sys_path) < Len(sys_path)
    /\ new_sys_path' = Append(new_sys_path, rewrite_entry(sys_path[Len(new_sys_path) + 1]))
    /\ UNCHANGED <<spc, lit, sys_prefix, sys_exec_prefix, sys_base_prefix,
                   sys_base_exec_prefix, sys_path, sys_modules, sys_flags,
                   real_sys_flags, seen_no_user_site, exc>>
    /\ UNCHANGED build_vars

\* sys.path = new_sys_path
RewriteDone ==
    /\ spc = "rewrite"
    /\ Len(new_sys_path) = Len(sys_path)
    /\ sys_path' = new_sys_path
    /\ spc' = "purge"
    /\ UNCHANGED <<lit, sys_prefix, sys_exec_prefix, sys_base_prefix,
                   sys_base_exec_prefix, new_sys_path, sys_modules, sys_flags,
                   real_sys_flags, seen_no_user_site, exc>>
    /\ UNCHANGED build_vars

\* the list without "__builtin__"
keep_modules_mut == {"sys", "site", "sitecustomize", "__main__"}

\* the modules the purge loop skips
keep_modules == {"sys", "site", "sitecustomize", "__builtin__", "__main__"}

\* for key in list(sys.modules): ... del sys.modules[key]
PurgeModules ==
    /\ spc = "purge"
    /\ sys_modules' = [key \in DOMAIN sys_modules \cap keep_modules |-> sys_modules[key]]
    /\ spc' = "flags"
    /\ UNCHANGED <<lit, sys_prefix, sys_exec_prefix, sys_base_prefix,
                   sys_base_exec_prefix, sys_path, new_sys_path, sys_flags,
                   real_sys_flags, seen_no_user_site, exc>>
    /\ UNCHANGED build_vars

\* _real_sys_flags = sys.flags; sys.flags = AttrDict(...);
\* sys.flags["no_user_site"] = True
SwapFlags ==
    /\ spc = "flags"
    /\ real_sys_flags' = sys_flags
    /\ sys_flags' = [kind |-> "AttrDict", no_user_site |-> TRUE]
    /\ spc' = "exec"
    /\ UNCHANGED <<lit, sys_prefix, sys_exec_prefix, sys_base_prefix,
                   sys_base_exec_prefix, sys_path, new_sys_path, sys_modules,
                   seen_no_user_site, exc>>
    /\ UNCHANGED build_vars

\* with open("__SITE__") as fp: exec(fp.read())
ExecSite ==
    /\ spc = "exec"
    /\ \/ \* the base site.py runs to its end; it imports os from the base library
          /\ seen_no_user_site' = {sys_flags.no_user_site}
          /\ sys_modules' = ("os" :> "base") @@ sys_modules
          /\ spc' = "restore"
          /\ UNCHANGED exc
       \/ \* open() raises: the base site.py is gone or unreadable
          /\ exc' = "IOError"
          /\ spc' = "raised"
          /\ UNCHANGED <<seen_no_user_site, sys_modules>>
       \/ \* the executed base site.py raises
          /\ seen_no_user_site' = {sys_flags.no_user_site}
          /\ exc' = "Exception"
          /\ spc' = "raised"
          /\ UNCHANGED sys_modules
    /\ UNCHANGED <<lit, sys_prefix, sys_exec_prefix, sys_base_prefix,
                   sys_base_exec_prefix, sys_path, new_sys_path, sys_flags,
                   real_sys_flags>>
    /\ UNCHANGED build_vars

\* sys.flags = _real_sys_flags
RestoreFlags ==
    /\ spc = "restore"
    /\ sys_flags' = real_sys_flags
    /\ spc' = "end"
    /\ UNCHANGED <<lit, sys_prefix, sys_exec_prefix, sys_base_prefix,
                   sys_base_exec_prefix, sys_path, new_sys_path, sys_modules,
                   real_sys_flags, seen_no_user_site, exc>>
    /\ UNCHANGED build_vars

SiteNext ==
    \/ SetPrefixes
    \/ RewriteEntry
    \/ RewriteDone
    \/ PurgeModules
    \/ SwapFlags
    \/ ExecSite
    \/ RestoreFlags

SiteSpec == SiteInit /\ [][SiteNext]_vars

----------------------------------------------------------------------------
\* Properties of create_virtual_environment (checked under Spec).

\* the documented layout, written out from the destination and the version
LayoutLib == destination \o "/lib/python" \o str(python["sys.version_info"][1])
                 \o "." \o str(python["sys.version_info"][2])

LayoutBinaries ==
    {destination \o "/bin/python",
     destination \o "/bin/python" \o str(python["sys.version_info"][1]),
     destination \o "/bin/python" \o str(python["sys.version_info"][1])
         \o "." \o str(python["sys.version_info"][2])}

FixedModuleSet ==
    {"posixpath.py", "stat.py", "genericpath.py", "warnings.py", "linecache.py",
     "types.py", "UserDict.py", "_abcoll.py", "abc.py", "_weakrefset.py",
     "copy_reg.py"}

\* C1: when create_virtual_environment has returned, the destination holds
\* exactly the documented layout: bin/python, bin/python<M>, bin/python<M>.<m>,
\* each a copy of the base executable; lib/python<M>.<m>/ with os.py and every
\* file of the fixed module set copied under its name from the base library,
\* and the generated site.py; and lib/python<M>.<m>/site-packages/.
C1_Layout ==
    status = "done" =>
        /\ dirs = {destination \o "/bin", LayoutLib, LayoutLib \o "/site-packages"}
        /\ DOMAIN files =
               LayoutBinaries
                   \cup {LayoutLib \o "/" \o name :
                            name \in FixedModuleSet \cup {"os.py", "site.py"}}
        /\ Cardinality(LayoutBinaries) = 3
        /\ \A b \in LayoutBinaries : files[b] = contents(python["sys.executable"])
        /\ \A name \in FixedModuleSet \cup {"os.py"} :
               files[LayoutLib \o "/" \o name] = contents(python["lib"] \o "/" \o name)
        /\ files[LayoutLib \o "/site.py"] = render(destination, python)

C1_Witness ==
    /\ status = "done"
    /\ python["sys.version_info"][1] = 3
    /\ (destination \o "/bin/python3.10") \in DOMAIN files

\* C2: the written site.py holds none of the five placeholder tokens, and it
\* is the template with each placeholder replaced by its own value: the
\* destination for __PREFIX__ and __EXEC_PREFIX__, the base prefix and base
\* exec-prefix for __BASE_PREFIX__ and __BASE_EXEC_PREFIX__, and the path of
\* the base site.py for __SITE__.
C2_Rendered ==
    status = "done" =>
        LET text == files[site_dst(destination, base_python)] IN
        /\ \A token \in Placeholders : ~contains(text, token)
        /\ text = SITE_seg1 \o destination \o SITE_seg2 \o destination
                      \o SITE_seg3 \o base_python["sys.prefix"]
                      \o SITE_seg4 \o base_python["sys.exec_prefix"]
                      \o SITE_seg5 \o base_python["site.py"] \o SITE_seg6

\* C8: a run that returns leaves the tree that one run against the empty
\* destination leaves, whatever the destination held when the run began (nothing,
\* the result of a complete run, or what a failed run left); and a second
\* complete run changes nothing in the tree of the first.
C8_Idempotent ==
    status = "done" =>
        LET once == build(EmptyTree, destination, python)
            twice == build([once EXCEPT !.log = <<>>], destination, python)
        IN  /\ dirs = once.dirs /\ files = once.files
            /\ twice.dirs = once.dirs /\ twice.files = once.files

C8_Witness == status = "done" /\ run > 1

\* C9: the layout depends on the destination and on major and minor only:
\* with any other micro version the binary directory, the three binary names,
\* the library directory and the site-packages directory are the same, the
\* library directory is named python<M>.<m>, and every directory and file
\* created lies in the layout computed for micro version 0.
C9_MicroIndependent ==
    LET zero == [python EXCEPT !["sys.version_info"][3] = 0] IN
    /\ \A p \in 0..(MaxMicro + 1) :
           LET other == [python EXCEPT !["sys.version_info"][3] = p] IN
           /\ \A n \in 0..2 : binary_name(other, n) = binary_name(python, n)
           /\ lib_dir(destination, other) = lib_dir(destination, python)
           /\ site_packages_dir(destination, other) = site_packages_dir(destination, python)
    /\ lib_dir(destination, python) = LayoutLib
    /\ dirs \subseteq {bin_dir(destination), lib_dir(destination, zero),
                       site_packages_dir(destination, zero)}
    /\ \A f \in DOMAIN files :
           \/ \E n \in 0..2 : f = os_path_join(bin_dir(destination), binary_name(zero, n))
           \/ \E name \in modules \cup {"os.py", "site.py"} :
                  f = os_path_join(lib_dir(destination, zero), name)

C9_Witness ==
    /\ status = "done"
    /\ python["sys.version_info"][3] > 0
    /\ LayoutLib \in dirs

\* C10: within one run no destination file is written twice: os.py and site.py
\* are not in the fixed module set, site.py is written by the last step only,
\* and when the run has returned site.py is the rendered template, not a copy
\* of the base library's site.py.
C10_SingleWriter ==
    /\ "os.py" \notin modules /\ "site.py" \notin modules
    /\ \A a, b \in DOMAIN log : log[a] = log[b] => a = b
    /\ \A a \in DOMAIN log :
           log[a] = os_path_join(LayoutLib, "site.py") => a = Len(log) /\ pc = "write_site"
    /\ status = "done" =>
           /\ log[Len(log)] = os_path_join(LayoutLib, "site.py")
           /\ files[log[Len(log)]] = render(destination, base_python)
           /\ files[log[Len(log)]] # contents(base_python["site.py"])

C10_Witness ==
    /\ status = "done"
    /\ run > 1
    /\ Len(log) = 16

\* C6: when a file of the fixed module set is missing from the base library,
\* create_virtual_environment does not return; the run that reaches the
\* missing file fails with an error naming it, and nothing is rolled back: the
\* three directories, the three binaries, os.py and every module copied before
\* it are still there with the content they were given.
C6_MissingModule ==
    /\ base_missing \cap modules # {} => status # "done"
    /\ (/\ status = "failed" /\ pc = "copy_modules"
        /\ ~exists(os_path_join(python["lib"], Head(todo))))
       => /\ contains(error, os_path_join(python["lib"], Head(todo)))
          /\ {destination \o "/bin", LayoutLib, LayoutLib \o "/site-packages"}
                 \subseteq dirs
          /\ \A b \in LayoutBinaries :
                 b \in DOMAIN files /\ files[b] = contents(python["sys.executable"])
          /\ \A name \in (modules \ {todo[j] : j \in DOMAIN todo}) \cup {"os.py"} :
                 /\ (LayoutLib \o "/" \o name) \in DOMAIN files
                 /\ files[LayoutLib \o "/" \o name] = contents(python["lib"] \o "/" \o name)

C6_Witness ==
    /\ status = "failed" /\ pc = "copy_modules"
    /\ Head(todo) = "stat.py"
    /\ error = NoSuchFile(python["lib"] \o "/stat.py")
    /\ (LayoutLib \o "/posixpath.py") \in DOMAIN files
    /\ (LayoutLib \o "/stat.py") \notin DOMAIN files

\* the step that failed left the destination as it found it
FailedStepLeftNothing == dirs' = dirs /\ files' = files

\* the failed write of site.py left site.py open for writing: present and empty
FailedWriteLeftEmptySite ==
    /\ pc = "write_site"
    /\ dirs' = dirs
    /\ files' = (os_path_join(LayoutLib, "site.py") :> "") @@ files

\* everything that precedes the writing of site.py was done by this run
AllStepsBeforeSiteDone ==
    /\ base_python = python
    /\ {destination \o "/bin", LayoutLib, LayoutLib \o "/site-packages"} \subseteq dirs
    /\ {log[a] : a \in 1..(Len(log) - 1)} =
           LayoutBinaries \cup {LayoutLib \o "/" \o name : name \in FixedModuleSet \cup {"os.py"}}

\* C7 as amended: a failure ends the run with the error at the caller and no
\* later step runs; the destination is what the steps before the failing one
\* (each directory creation and each single copy a step) made of it, except
\* that a failure of the last step after site.py was opened leaves site.py
\* present and empty. A probe failure leaves the destination untouched, and
\* site.py is written only after the probe, every directory creation and every
\* copy of the run succeeded.
C7_FailureAborts ==
    /\ [][(status = "running" /\ status' = "failed")
              => /\ error' # ""
                 /\ pc' = pc
                 /\ FailedStepLeftNothing \/ FailedWriteLeftEmptySite]_vars
    /\ [][status = "failed"
              => /\ FailedStepLeftNothing
                 /\ status' = "failed" \/ (status' = "running" /\ pc' = "probe")]_vars
    /\ []((status = "failed" /\ pc = "probe") => (run = 1 => dirs = {} /\ files = <<>>))
    /\ []((\E a \in DOMAIN log : log[a] = os_path_join(LayoutLib, "site.py"))
              => AllStepsBeforeSiteDone)

C7_Witness ==
    /\ status = "failed" /\ pc = "write_site" /\ error # ""
    /\ os_path_join(LayoutLib, "site.py") \in DOMAIN files
    /\ files[os_path_join(LayoutLib, "site.py")] = ""

\* C7 as claimed: whichever step fails, the destination is exactly what the
\* steps before it produced.
C7_FailedStepLeavesNothing ==
    [][(status = "running" /\ status' = "failed") => FailedStepLeftNothing]_vars

----------------------------------------------------------------------------
\* Properties of the generated site.py (checked under SiteSpec).

\* C3: sys.flags is the stand-in only while the base site.py is executed, the
\* executed site.py reads no_user_site as True, and when the script has ended,
\* normally or by an exception of open() or exec(), sys.flags is the original
\* object again.
C3_FlagsRestored ==
    /\ seen_no_user_site \subseteq {TRUE}
    /\ spc \notin {"exec", "restore"} => sys_flags.kind = "sys.flags"
    /\ spc \in {"end", "raised"} => sys_flags = real_sys_flags

\* C4 as amended: the purge leaves in sys.modules exactly the entries whose
\* key is one of sys, site, sitecustomize, __builtin__, __main__, each bound to
\* what it was bound to before.
C4_PurgeKeepsFive ==
    [][spc = "purge"
          => sys_modules' =
                 [key \in DOMAIN sys_modules
                             \cap {"sys", "site", "sitecustomize", "__builtin__", "__main__"}
                     |-> sys_modules[key]]]_vars

C4_Witness ==
    /\ spc = "flags"
    /\ DOMAIN sys_modules = {"sys", "site", "sitecustomize", "__builtin__", "__main__"}

\* C4 as claimed: the purge leaves exactly the entries whose key is one of the
\* four modules sys, site, sitecustomize, __main__.
C4_PurgeKeepsFour ==
    [][spc = "purge"
          => sys_modules' =
                 [key \in DOMAIN sys_modules \cap {"sys", "site", "sitecustomize", "__main__"}
                     |-> sys_modules[key]]]_vars

\* what the claim makes of an entry, "prefixed by" read as a prefix of the text
claimed_by_text(path) ==
    IF startswith(path, sys_prefix)
    THEN sys_base_prefix \o slice_from(path, Len(sys_prefix))
    ELSE IF startswith(path, sys_exec_prefix)
    THEN sys_base_exec_prefix \o slice_from(path, Len(sys_exec_prefix))
    ELSE path

\* path is the directory prefix or lies under it
under(path, prefix) == path = prefix \/ startswith(path, prefix \o "/")

\* what the claim makes of an entry, "prefixed by" read as lying under the directory
claimed_by_directory(path) ==
    IF under(path, sys_prefix)
    THEN sys_base_prefix \o slice_from(path, Len(sys_prefix))
    ELSE IF under(path, sys_exec_prefix)
    THEN sys_base_exec_prefix \o slice_from(path, Len(sys_exec_prefix))
    ELSE path

\* a path without its trailing separator
without_trailing_sep(path) ==
    IF Len(path) > 1 /\ endswith(path, "/") THEN SubSeq(path, 1, Len(path) - 1)
    ELSE path

\* C5: the rewrite maps sys.path entry by entry, in order: an entry prefixed by
\* the environment's prefix (or else its exec-prefix) becomes the base prefix
\* followed by what came after the environment prefix, any other entry is
\* unchanged, and the new list has the length of the old. (Stated here up to
\* a trailing separator, and under either reading of "prefixed by".)
C5_PathRewrite ==
    /\ spc = "rewrite" =>
           /\ Len(new_sys_path) <= Len(sys_path)
           /\ \A j \in DOMAIN new_sys_path :
                  without_trailing_sep(new_sys_path[j])
                      \in {without_trailing_sep(claimed_by_text(sys_path[j])),
                           without_trailing_sep(claimed_by_directory(sys_path[j]))}
    /\ spc = "purge" => sys_path = new_sys_path

====
